---- MODULE Spec2Model ----
(***************************************************************************)
(* Model of scripts/fetch_data.py: main() drives the metadata probe, the   *)
(* menu, the paginated fetch loop of NYCDataFetcher.fetch_sales_data and   *)
(* the two CSV writes.  The Socrata server and the file system are the     *)
(* environment: the server holds a fixed ordered sequence of N records and *)
(* serves it by $offset/$limit; any request may fail.                      *)
(***************************************************************************)
EXTENDS Integers, Sequences, FiniteSets, TLC

\* ------------------------------------------------------------------ bounds
MaxP == 3          \* page sizes 1..MaxP stand for self.limit
MaxN == 4          \* the server holds 0..MaxN records
MaxRuns == 2       \* the program is started at most MaxRuns times

VARIABLES
    limit,          \* self.limit, the page size P
    N,              \* number of records the server holds for the date range
    run,            \* which start of the program this is
    pc,             \* position of main / fetch_sales_data
    probeReturn,    \* value returned by get_dataset_info
    choice,         \* the menu choice read by main
    where,          \* the $where filter built from start_date and end_date
    all_data,       \* accumulator of fetch_sales_data
    offset,         \* $offset of the next request
    total_fetched,  \* running count of fetch_sales_data
    requests,       \* the requests.get calls of this run, in order
    responses,      \* what each request produced, in order
    sleeps,         \* number of time.sleep(0.5) calls of this run
    exitReason,     \* how the while loop was left
    df,             \* the DataFrame built at line 107, once bound
    fetchOutcome,   \* "none", "returned" or "raised"
    raisedExc,      \* the exception that left fetch_sales_data or main's try
    writes,         \* the to_csv calls of this run, in order
    canonical,      \* content of data/raw/nyc_property_sales.csv
    errors,         \* sources of the logger.error calls of this run
    hints,          \* main printed the remediation hints
    success,        \* main printed the success message
    history         \* what the callers of earlier returns could observe

vars == <<limit, N, run, pc, probeReturn, choice, where, all_data, offset,
          total_fetched, requests, responses, sleeps, exitReason, df,
          fetchOutcome, raisedExc, writes, canonical, errors, hints, success,
          history>>

\* ------------------------------------------------------------ environment
\* A file that does not exist and a name that is not bound yet are the empty
\* sequence; an existing file or a bound name is a one-element sequence.
NoFile == <<>>
NoFrame == <<>>
NoExc == "no_exception"

\* One record of the dataset: a mapping of field name to value.  The server
\* orders by sale_date DESC, so record i carries the i-th largest date.
Record(i) == [id |-> i, sale_date |-> MaxN + 2 - i]

ServerRecords == [i \in 1..N |-> Record(i)]

Min(a, b) == IF a < b THEN a ELSE b

\* The page the server returns for $offset = off and $limit = lim.
Page(off, lim) ==
    IF off >= N THEN <<>>
    ELSE [i \in 1..(Min(off + lim, N) - off) |-> ServerRecords[off + i]]

\* requests.exceptions.RequestException raised by requests.get (transport)
\* or by raise_for_status (non-2xx status).
Failures == {"transport", "http"}

\* A malformed date filter is rejected by the server with a 4xx on every
\* request; otherwise a request succeeds or fails.
Outcomes == IF where = "malformed" THEN {"http"} ELSE {"ok"} \cup Failures

ProbeOutcomes == {"ok", "request_error", "bad_status", "bad_json", "bad_field"}

Choices == {"1", "2", "3", "4", "other"}

\* ----------------------------------------------------------------- pandas
\* pd.DataFrame(all_data): one row per record, columns are the field names.
DataFrame(data) ==
    [columns |-> IF data = <<>> THEN <<>> ELSE <<"id", "sale_date">>,
     rows |-> data]

\* df.to_csv(path, index=False): a header row of the column names followed
\* by one line of values per row.
to_csv(frame) ==
    [header |-> frame.columns,
     lines |-> [i \in 1..Len(frame.rows) |->
                  <<frame.rows[i].id, frame.rows[i].sale_date>>]]

\* pd.read_csv(path) of the downstream stage: the first line is the header;
\* a file whose header line names no column cannot be parsed and raises
\* EmptyDataError, otherwise the columns are the header names and there is
\* one row per following line.
read_csv(file) ==
    IF file.header = <<>>
    THEN [error |-> "EmptyDataError", columns |-> <<>>, nrows |-> 0]
    ELSE [error |-> "none", columns |-> file.header,
          nrows |-> Len(file.lines)]

\* ------------------------------------------------------- fetch_sales_data
\* line 80: if not data
IsEmpty(data) == data = <<>>

\* Variant: a full page is taken for the last one.
IsLastPage_Inclusive(data) == Len(data) <= limit

\* Variant: the short-page test is missing, only an empty page ends the loop.
IsLastPage_Never(data) == Len(data) < 0

\* line 89: if len(data) < self.limit
IsLastPage(data) == Len(data) < limit

\* Variant: the offset advances one record too far.
NextOffset_Skip(off) == off + limit + 1

\* line 93: offset += self.limit
NextOffset(off) == off + limit

\* Variant: a failure on the second page is not seen as partial success.
HasPartial_OffByOne == offset > limit

\* Variant: every failure is swallowed, the first one included.
HasPartial_Always == offset >= 0

\* line 100: if offset > 0
HasPartial == offset > 0

\* Variant: the page size of a request grows with the offset.
Params_Growing == [limit |-> limit + offset, offset |-> offset,
                   where |-> where, order |-> "sale_date DESC"]

\* lines 63-68: the query parameters of one request
Params == [limit |-> limit, offset |-> offset, where |-> where,
           order |-> "sale_date DESC"]

Init ==
    /\ limit \in 1..MaxP
    /\ N \in 0..MaxN
    /\ run = 1
    /\ pc = "probe"
    /\ probeReturn = "unset"
    /\ choice = "unset"
    /\ where = "unset"
    /\ all_data = <<>>
    /\ offset = 0
    /\ total_fetched = 0
    /\ requests = <<>>
    /\ responses = <<>>
    /\ sleeps = 0
    /\ exitReason = "none"
    /\ df = NoFrame
    /\ fetchOutcome = "none"
    /\ raisedExc = NoExc
    /\ writes = <<>>
    /\ canonical = NoFile
    /\ errors = <<>>
    /\ hints = FALSE
    /\ success = FALSE
    /\ history = {}

\* Variant: only RequestException is caught, so a decoding or field error
\* leaves get_dataset_info and main.
GetDatasetInfo_Raises ==
    /\ pc = "probe"
    /\ \E o \in ProbeOutcomes :
         IF o \in {"bad_json", "bad_field"}
         THEN /\ pc' = "crashed"
              /\ UNCHANGED <<probeReturn, errors>>
         ELSE /\ probeReturn' = IF o = "ok" THEN "metadata" ELSE "None"
              /\ errors' = IF o = "ok" THEN errors ELSE Append(errors, "probe")
              /\ pc' = "menu"
    /\ UNCHANGED <<limit, N, run, choice, where, all_data, offset,
                   total_fetched, requests, responses, sleeps, exitReason, df,
                   fetchOutcome, raisedExc, writes, canonical, hints, success,
                   history>>

\* get_dataset_info, called from main line 176: every exception of the
\* request, the status check, the JSON decoding and the field accesses is
\* caught at line 150, logged, and None is returned.
GetDatasetInfo ==
    /\ pc = "probe"
    /\ \E o \in ProbeOutcomes :
         /\ probeReturn' = IF o = "ok" THEN "metadata" ELSE "None"
         /\ errors' = IF o = "ok" THEN errors ELSE Append(errors, "probe")
    /\ pc' = "menu"
    /\ UNCHANGED <<limit, N, run, choice, where, all_data, offset,
                   total_fetched, requests, responses, sleeps, exitReason, df,
                   fetchOutcome, raisedExc, writes, canonical, hints, success,
                   history>>

\* main lines 186-208: read the choice and call the fetch with its dates.
\* Choices 1, 2, 3 and the fallback build well-formed dates; choice 4
\* forwards whatever was typed.
ChooseOption ==
    /\ pc = "menu"
    /\ \E c \in Choices :
         /\ choice' = c
         /\ where' \in IF c = "4" THEN {"custom", "malformed"}
                       ELSE {IF c = "1" THEN "last365"
                             ELSE IF c = "3" THEN "since2019" ELSE "last730"}
    /\ pc' = "fetch"
    /\ UNCHANGED <<limit, N, run, probeReturn, all_data, offset,
                   total_fetched, requests, responses, sleeps, exitReason, df,
                   fetchOutcome, raisedExc, writes, canonical, errors, hints,
                   success, history>>

\* fetch_sales_data lines 44-58: initialise the accumulator and the offset.
BeginFetch ==
    /\ pc = "fetch"
    /\ all_data' = <<>>
    /\ offset' = 0
    /\ total_fetched' = 0
    /\ pc' = "loop"
    /\ UNCHANGED <<limit, N, run, probeReturn, choice, where, requests,
                   responses, sleeps, exitReason, df, fetchOutcome, raisedExc,
                   writes, canonical, errors, hints, success, history>>

\* lines 63-74: build the parameters and issue the blocking GET.
IssueRequest ==
    /\ pc = "loop"
    /\ requests' = Append(requests, Params)
    /\ pc' = "wait"
    /\ UNCHANGED <<limit, N, run, probeReturn, choice, where, all_data,
                   offset, total_fetched, responses, sleeps, exitReason, df,
                   fetchOutcome, raisedExc, writes, canonical, errors, hints,
                   success, history>>

\* Variant: an empty page is raised as an error instead of ending the loop.
ReceivePage_EmptyRaises ==
    /\ pc = "wait"
    /\ "ok" \in Outcomes
    /\ LET data == Page(requests[Len(requests)].offset,
                        requests[Len(requests)].limit)
       IN /\ responses' = Append(responses, [status |-> "ok", data |-> data])
          /\ IF IsEmpty(data)
             THEN /\ exitReason' = "Raised"
                  /\ fetchOutcome' = "raised"
                  /\ raisedExc' = "ValueError"
                  /\ pc' = "except"
                  /\ UNCHANGED <<all_data, total_fetched, offset>>
             ELSE /\ all_data' = all_data \o data
                  /\ total_fetched' = total_fetched + Len(data)
                  /\ UNCHANGED <<fetchOutcome, raisedExc>>
                  /\ IF IsLastPage(data)
                     THEN /\ exitReason' = "ShortPage"
                          /\ pc' = "to_frame"
                          /\ UNCHANGED offset
                     ELSE /\ offset' = NextOffset(offset)
                          /\ pc' = "sleep"
                          /\ UNCHANGED exitReason
    /\ UNCHANGED <<limit, N, run, probeReturn, choice, where, requests,
                   sleeps, df, writes, canonical, errors, hints, success,
                   history>>

\* lines 75-93: a 2xx response; parse the page, stop on an empty or a short
\* page, otherwise advance the offset.
ReceivePage ==
    /\ pc = "wait"
    /\ "ok" \in Outcomes
    /\ LET data == Page(requests[Len(requests)].offset,
                        requests[Len(requests)].limit)
       IN /\ responses' = Append(responses, [status |-> "ok", data |-> data])
          /\ IF IsEmpty(data)
             THEN /\ exitReason' = "EmptyPage"
                  /\ pc' = "to_frame"
                  /\ UNCHANGED <<all_data, total_fetched, offset>>
             ELSE /\ all_data' = all_data \o data
                  /\ total_fetched' = total_fetched + Len(data)
                  /\ IF IsLastPage(data)
                     THEN /\ exitReason' = "ShortPage"
                          /\ pc' = "to_frame"
                          /\ UNCHANGED offset
                     ELSE /\ offset' = NextOffset(offset)
                          /\ pc' = "sleep"
                          /\ UNCHANGED exitReason
    /\ UNCHANGED <<limit, N, run, probeReturn, choice, where, requests,
                   sleeps, df, fetchOutcome, raisedExc, writes, canonical,
                   errors, hints, success, history>>

\* Variant: the first failed request of a run is retried once.
RequestFails_RetryOnce ==
    /\ pc = "wait"
    /\ \E f \in Outcomes \cap Failures :
         /\ responses' = Append(responses, [status |-> f, data |-> <<>>])
         /\ errors' = Append(errors, "fetch")
         /\ IF \A k \in 1..Len(responses) : responses[k].status = "ok"
            THEN /\ pc' = "loop"
                 /\ UNCHANGED <<exitReason, fetchOutcome, raisedExc>>
            ELSE IF HasPartial
            THEN /\ exitReason' = "Failure"
                 /\ pc' = "to_frame"
                 /\ UNCHANGED <<fetchOutcome, raisedExc>>
            ELSE /\ exitReason' = "Raised"
                 /\ fetchOutcome' = "raised"
                 /\ raisedExc' = f
                 /\ pc' = "except"
    /\ UNCHANGED <<limit, N, run, probeReturn, choice, where, all_data,
                   offset, total_fetched, requests, sleeps, df, writes,
                   canonical, hints, success, history>>

\* Variant: the accumulation is saved before a first-page failure is
\* re-raised.
RequestFails_SavesOnRaise ==
    /\ pc = "wait"
    /\ \E f \in Outcomes \cap Failures :
         /\ responses' = Append(responses, [status |-> f, data |-> <<>>])
         /\ errors' = Append(errors, "fetch")
         /\ IF HasPartial
            THEN /\ exitReason' = "Failure"
                 /\ pc' = "to_frame"
                 /\ UNCHANGED <<fetchOutcome, raisedExc, writes, canonical>>
            ELSE /\ exitReason' = "Raised"
                 /\ fetchOutcome' = "raised"
                 /\ raisedExc' = f
                 /\ writes' = Append(writes,
                        [path |-> "standard",
                         content |-> to_csv(DataFrame(all_data))])
                 /\ canonical' = <<to_csv(DataFrame(all_data))>>
                 /\ pc' = "except"
    /\ UNCHANGED <<limit, N, run, probeReturn, choice, where, all_data,
                   offset, total_fetched, requests, sleeps, df, hints,
                   success, history>>

\* lines 74-75 and 98-104: the request raises a RequestException; it is
\* logged, then swallowed when offset > 0 and re-raised otherwise.
RequestFails ==
    /\ pc = "wait"
    /\ \E f \in Outcomes \cap Failures :
         /\ responses' = Append(responses, [status |-> f, data |-> <<>>])
         /\ errors' = Append(errors, "fetch")
         /\ IF HasPartial
            THEN /\ exitReason' = "Failure"
                 /\ pc' = "to_frame"
                 /\ UNCHANGED <<fetchOutcome, raisedExc>>
            ELSE /\ exitReason' = "Raised"
                 /\ fetchOutcome' = "raised"
                 /\ raisedExc' = f
                 /\ pc' = "except"
    /\ UNCHANGED <<limit, N, run, probeReturn, choice, where, all_data,
                   offset, total_fetched, requests, sleeps, df, writes,
                   canonical, hints, success, history>>

\* Variant: the delay between two requests is left out.
Sleep_None ==
    /\ pc = "sleep"
    /\ pc' = "loop"
    /\ UNCHANGED <<limit, N, run, probeReturn, choice, where, all_data,
                   offset, total_fetched, requests, responses, sleeps,
                   exitReason, df, fetchOutcome, raisedExc, writes, canonical,
                   errors, hints, success, history>>

\* line 96: the fixed delay before the next request.
Sleep ==
    /\ pc = "sleep"
    /\ sleeps' = sleeps + 1
    /\ pc' = "loop"
    /\ UNCHANGED <<limit, N, run, probeReturn, choice, where, all_data,
                   offset, total_fetched, requests, responses, exitReason, df,
                   fetchOutcome, raisedExc, writes, canonical, errors, hints,
                   success, history>>

\* line 107: df = pd.DataFrame(all_data)
ToDataFrame ==
    /\ pc = "to_frame"
    /\ df' = <<DataFrame(all_data)>>
    /\ pc' = "save_timestamped"
    /\ UNCHANGED <<limit, N, run, probeReturn, choice, where, all_data,
                   offset, total_fetched, requests, responses, sleeps,
                   exitReason, fetchOutcome, raisedExc, writes, canonical,
                   errors, hints, success, history>>

\* lines 111-116: write the timestamped file.
SaveTimestamped ==
    /\ pc = "save_timestamped"
    /\ writes' = Append(writes, [path |-> "timestamped",
                                 content |-> to_csv(df[1])])
    /\ pc' = "save_standard"
    /\ UNCHANGED <<limit, N, run, probeReturn, choice, where, all_data,
                   offset, total_fetched, requests, responses, sleeps,
                   exitReason, df, fetchOutcome, raisedExc, canonical, errors,
                   hints, success, history>>

\* What the caller of a return can observe of it: the record count modulo
\* the page size and whether the result is empty.
Signature(frame) == <<Len(frame.rows) % limit, Len(frame.rows) = 0>>

\* Variant: the canonical file is written only for a non-empty frame.
SaveStandard_NonEmptyOnly ==
    /\ pc = "save_standard"
    /\ IF df[1].rows = <<>>
       THEN UNCHANGED <<writes, canonical>>
       ELSE /\ writes' = Append(writes, [path |-> "standard",
                                         content |-> to_csv(df[1])])
            /\ canonical' = <<to_csv(df[1])>>
    /\ fetchOutcome' = "returned"
    /\ history' = history \cup {[sig |-> Signature(df[1]),
                                 truncated |-> exitReason = "Failure"]}
    /\ pc' = "summary"
    /\ UNCHANGED <<limit, N, run, probeReturn, choice, where, all_data,
                   offset, total_fetched, requests, responses, sleeps,
                   exitReason, df, raisedExc, errors, hints, success>>

\* lines 119-123: write nyc_property_sales.csv and return df.
SaveStandard ==
    /\ pc = "save_standard"
    /\ writes' = Append(writes, [path |-> "standard",
                                 content |-> to_csv(df[1])])
    /\ canonical' = <<to_csv(df[1])>>
    /\ fetchOutcome' = "returned"
    /\ history' = history \cup {[sig |-> Signature(df[1]),
                                 truncated |-> exitReason = "Failure"]}
    /\ pc' = "summary"
    /\ UNCHANGED <<limit, N, run, probeReturn, choice, where, all_data,
                   offset, total_fetched, requests, responses, sleeps,
                   exitReason, df, raisedExc, errors, hints, success>>

\* main lines 210-221: print the summary; df['sale_date'] raises KeyError
\* when the frame has no such column.
Summary ==
    /\ pc = "summary"
    /\ IF \E k \in 1..Len(df[1].columns) : df[1].columns[k] = "sale_date"
       THEN /\ success' = TRUE
            /\ pc' = "done"
            /\ UNCHANGED raisedExc
       ELSE /\ raisedExc' = "KeyError"
            /\ pc' = "except"
            /\ UNCHANGED success
    /\ UNCHANGED <<limit, N, run, probeReturn, choice, where, all_data,
                   offset, total_fetched, requests, responses, sleeps,
                   exitReason, df, fetchOutcome, writes, canonical, errors,
                   hints, history>>

\* main lines 223-228: log the exception and print the remediation hints.
HandleError ==
    /\ pc = "except"
    /\ errors' = Append(errors, "main")
    /\ hints' = TRUE
    /\ pc' = "done"
    /\ UNCHANGED <<limit, N, run, probeReturn, choice, where, all_data,
                   offset, total_fetched, requests, responses, sleeps,
                   exitReason, df, fetchOutcome, raisedExc, writes, canonical,
                   success, history>>

\* The program is started again (line 231): a fresh fetcher and a fresh
\* run against whatever the server holds now; only the files remain.
StartAgain ==
    /\ pc = "done"
    /\ run < MaxRuns
    /\ run' = run + 1
    /\ N' \in 0..MaxN
    /\ pc' = "probe"
    /\ probeReturn' = "unset"
    /\ choice' = "unset"
    /\ where' = "unset"
    /\ all_data' = <<>>
    /\ offset' = 0
    /\ total_fetched' = 0
    /\ requests' = <<>>
    /\ responses' = <<>>
    /\ sleeps' = 0
    /\ exitReason' = "none"
    /\ df' = NoFrame
    /\ fetchOutcome' = "none"
    /\ raisedExc' = NoExc
    /\ writes' = <<>>
    /\ errors' = <<>>
    /\ hints' = FALSE
    /\ success' = FALSE
    /\ UNCHANGED <<limit, canonical, history>>

Next ==
    \/ GetDatasetInfo
    \/ ChooseOption
    \/ BeginFetch
    \/ IssueRequest
    \/ ReceivePage
    \/ RequestFails
    \/ Sleep
    \/ ToDataFrame
    \/ SaveTimestamped
    \/ SaveStandard
    \/ Summary
    \/ HandleError
    \/ StartAgain

Spec == Init /\ [][Next]_vars

\* The steps of one run of main.  The program is single-threaded and every
\* request is bounded by self.timeout (line 30), so a run that can take a
\* step eventually takes one; starting the program again is up to the user.
Step ==
    \/ GetDatasetInfo
    \/ ChooseOption
    \/ BeginFetch
    \/ IssueRequest
    \/ ReceivePage
    \/ RequestFails
    \/ Sleep
    \/ ToDataFrame
    \/ SaveTimestamped
    \/ SaveStandard
    \/ Summary
    \/ HandleError

LiveSpec == Spec /\ WF_vars(Step)

TypeOK ==
    /\ limit \in 1..MaxP
    /\ N \in 0..MaxN
    /\ offset \in Nat
    /\ total_fetched \in Nat
    /\ fetchOutcome \in {"none", "returned", "raised"}
    /\ exitReason \in {"none", "EmptyPage", "ShortPage", "Failure", "Raised"}
    /\ pc \in {"probe", "menu", "fetch", "loop", "wait", "sleep", "to_frame",
               "save_timestamped", "save_standard", "summary", "except",
               "done", "crashed"}

\* ------------------------------------------------------------- properties
\* The while loop of fetch_sales_data has been left (by break or by raise).
LoopExited == pc \in {"to_frame", "save_timestamped", "save_standard",
                      "summary", "except", "done", "crashed"}

\* No request of this run has failed.
AllOk == \A k \in 1..Len(responses) : responses[k].status = "ok"

\* Every issued request has produced its response or its failure.
Responded == Len(responses) = Len(requests)

Ceil(a, b) == (a + b - 1) \div b

\* Kind of the k-th response, by its status and its size against the limit.
Kind(k) ==
    IF responses[k].status # "ok" THEN "failure"
    ELSE IF Len(responses[k].data) = 0 THEN "empty"
    ELSE IF Len(responses[k].data) < limit THEN "short"
    ELSE "full"

LastKind == Kind(Len(responses))

\* The records of the first k responses, in request order.
RECURSIVE Received(_)
Received(k) == IF k = 0 THEN <<>> ELSE Received(k - 1) \o responses[k].data

\* C1 as stated: without failures a finished loop has issued ceil(N / P)
\* requests when N > 0 and exactly one request when N = 0.
C1_Original ==
    (LoopExited /\ AllOk /\ Len(responses) > 0) =>
        Len(requests) = IF N = 0 THEN 1 ELSE Ceil(N, limit)

\* C1 amended: without failures a finished loop has issued floor(N / P) + 1
\* requests: one request answered by the empty page when N = 0, ceil(N / P)
\* when N is not a multiple of P, and N / P + 1 when N is a positive
\* multiple of P.
C1_Requests ==
    (LoopExited /\ AllOk /\ Len(responses) > 0) =>
        /\ Len(requests) = (N \div limit) + 1
        /\ N = 0 => (Len(requests) = 1 /\ responses[1].data = <<>>)
        /\ N % limit # 0 => Len(requests) = Ceil(N, limit)
        /\ (N > 0 /\ N % limit = 0) => Len(requests) = Ceil(N, limit) + 1

C1_Witness ==
    /\ LoopExited /\ AllOk
    /\ N > 0 /\ N % limit = 0
    /\ Len(requests) = (N \div limit) + 1

\* C2 as stated: the loop has ended exactly when the most recent response
\* is an empty page or a page of fewer than P records.
C2_Original ==
    (Responded /\ Len(responses) > 0) =>
        (LoopExited <=> LastKind \in {"empty", "short"})

\* C2 amended: the loop has ended exactly when the most recent request
\* failed or its response is an empty page or a page of fewer than P
\* records; a successful response of exactly P records never ends the
\* loop, so without failures a positive multiple of P ends with a full
\* page followed by one further request answered by the empty page.
C2_Termination ==
    (Responded /\ Len(responses) > 0) =>
        /\ LoopExited <=> LastKind \in {"empty", "short", "failure"}
        /\ LastKind = "full" => pc \in {"sleep", "loop"}
        /\ (LoopExited /\ AllOk /\ N > 0 /\ N % limit = 0) =>
              /\ Len(responses) >= 2
              /\ LastKind = "empty"
              /\ Kind(Len(responses) - 1) = "full"

C2_Witness ==
    /\ LoopExited /\ AllOk /\ Responded
    /\ N > limit /\ N % limit = 0
    /\ LastKind = "empty"
    /\ Kind(Len(responses) - 1) = "full"

\* C3: the k-th request of a run has offset (k - 1) * P: the first offset is
\* 0 and each later one is exactly P more than the one before it.
C3_Offsets ==
    \A k \in 1..Len(requests) :
        /\ requests[k].offset = (k - 1) * limit
        /\ k > 1 => requests[k].offset = requests[k - 1].offset + limit

C3_Witness ==
    /\ Len(requests) >= 3
    /\ limit >= 2
    /\ requests[3].offset = 2 * limit

\* C4: a failure after at least one successful request of the run is not
\* raised, and what is accumulated and returned is exactly the records of
\* the pages that succeeded before it, in order.
C4_PartialFailure ==
    \A k \in 2..Len(responses) :
        (Kind(k) = "failure" /\ \E j \in 1..(k - 1) : Kind(j) # "failure") =>
            /\ fetchOutcome # "raised"
            /\ exitReason = "Failure"
            /\ all_data = Received(k - 1)
            /\ pc \in {"summary", "done"} =>
                  (fetchOutcome = "returned" /\ df[1].rows = Received(k - 1))

C4_Witness ==
    /\ fetchOutcome = "returned"
    /\ Len(responses) = 2
    /\ Kind(1) = "full" /\ Kind(2) = "failure"
    /\ df[1].rows = responses[1].data
    /\ Len(df[1].rows) = limit

\* C5: a failure of the very first request is raised to the caller as that
\* failure; nothing is returned and no further request is issued.
C5_FirstFailure ==
    (Len(responses) >= 1 /\ Kind(1) = "failure") =>
        /\ fetchOutcome = "raised"
        /\ raisedExc = responses[1].status
        /\ df = NoFrame
        /\ Len(requests) = 1
        /\ pc \in {"except", "done"}

C5_Witness ==
    /\ where = "malformed"
    /\ fetchOutcome = "raised"
    /\ raisedExc = "http"
    /\ Len(requests) = 1

\* C6: when no request fails, the returned frame holds exactly the N
\* records of the server, each once, in the server's order, which is the
\* concatenation of the pages in request order.
C6_Complete ==
    (fetchOutcome = "returned" /\ AllOk) =>
        /\ df[1].rows = ServerRecords
        /\ df[1].rows = Received(Len(responses))
        /\ \A i \in 1..Len(df[1].rows) : df[1].rows[i] = Record(i)

C6_Witness ==
    /\ fetchOutcome = "returned" /\ AllOk
    /\ N >= 3
    /\ Len(requests) >= 2
    /\ Len(df[1].rows) = N

\* C7 as stated: no complete return and truncated return show the caller
\* the same record count modulo P together with the same emptiness.
C7_Distinguishable ==
    \A h1, h2 \in history : h1.sig = h2.sig => h1.truncated = h2.truncated

\* C8: when the first response is an empty page, fetch_sales_data raises
\* nothing, logs no error, issues no further request and returns an empty
\* frame.
C8_EmptyFirstPage ==
    (Len(responses) >= 1 /\ Kind(1) = "empty") =>
        /\ fetchOutcome # "raised"
        /\ exitReason = "EmptyPage"
        /\ Len(requests) = 1
        /\ \A k \in 1..Len(errors) : errors[k] # "fetch"
        /\ pc \in {"summary", "except", "done"} =>
              (fetchOutcome = "returned" /\ df = <<DataFrame(<<>>)>>)

C8_Witness ==
    /\ Len(responses) = 1 /\ Kind(1) = "empty"
    /\ fetchOutcome = "returned"
    /\ df[1].rows = <<>>

\* C9: on every return of fetch_sales_data the timestamped file and the
\* canonical file have each been written exactly once, in that order, both
\* with the CSV of the returned frame, which is the accumulation; and a
\* write happens only after the loop has ended with every request answered.
C9_SinkWrites ==
    /\ fetchOutcome = "returned" =>
          /\ df = <<DataFrame(all_data)>>
          /\ Len(writes) = 2
          /\ writes[1] = [path |-> "timestamped", content |-> to_csv(df[1])]
          /\ writes[2] = [path |-> "standard", content |-> to_csv(df[1])]
          /\ canonical = <<writes[2].content>>
    /\ writes # <<>> => (LoopExited /\ Responded)
    /\ Len(writes) <= 2

C9_Witness ==
    /\ fetchOutcome = "returned"
    /\ exitReason = "Failure"
    /\ Len(writes) = 2
    /\ writes[1].content = writes[2].content
    /\ Len(writes[2].content.lines) = Len(all_data)

\* C10: whatever the outcome of the metadata probe, get_dataset_info hands
\* control back to main at the menu; a failed probe returns None, and apart
\* from the return value and the logged error the state is the one a
\* successful probe leaves, so the menu and the fetch proceed alike.
C10_ProbeAbsorbed ==
    [][pc = "probe" =>
         /\ pc' = "menu"
         /\ probeReturn' \in {"metadata", "None"}
         /\ errors' # errors => (probeReturn' = "None"
                                 /\ errors' = Append(errors, "probe"))
         /\ UNCHANGED <<limit, N, run, choice, where, all_data, offset,
                        total_fetched, requests, responses, sleeps,
                        exitReason, df, fetchOutcome, raisedExc, writes,
                        canonical, hints, success, history>>]_vars

C10_Witness ==
    /\ probeReturn = "None"
    /\ errors # <<>> /\ errors[1] = "probe"
    /\ fetchOutcome = "returned"
    /\ success

\* The field names of an accumulation: the keys of its records.
FieldNames(data) == UNION {DOMAIN data[i] : i \in 1..Len(data)}

\* The names in a sequence of column names.
ColumnSet(cols) == {cols[k] : k \in 1..Len(cols)}

C12_NoRetry ==
    \A k \in 1..Len(responses) :
        Kind(k) = "failure" =>
            /\ k = Len(requests)
            /\ LoopExited
            /\ exitReason \in {"Raised", "Failure"}

C12_Witness ==
    /\ pc = "done"
    /\ Len(requests) >= 2
    /\ Kind(Len(requests)) = "failure"
    /\ fetchOutcome = "returned"

\* C13 as stated: when main is over, the hints were printed exactly when the
\* fetch raised; after a fetch that returned, the empty result included, the
\* success message was printed and the hints were not; and main did not
\* propagate an exception.
C13_HintsIffRaised ==
    /\ pc # "crashed"
    /\ pc = "done" =>
          /\ hints <=> fetchOutcome = "raised"
          /\ fetchOutcome = "returned" => (success /\ ~hints)

\* C14: at most one request is in flight; the delay has been applied once
\* for every full page received, which is once between every two successive
\* requests, and never after the final response.
C14_Throttle ==
    /\ Len(requests) - Len(responses) \in {0, 1}
    /\ Len(requests) > Len(responses) <=> pc = "wait"
    /\ sleeps = Cardinality({k \in 1..Len(responses) : Kind(k) = "full"})
                - (IF pc = "sleep" THEN 1 ELSE 0)
    /\ pc = "sleep" => (Len(responses) > 0 /\ LastKind = "full")
    /\ Len(requests) >= 1 =>
          sleeps = Len(requests) - (IF pc = "loop" THEN 0 ELSE 1)
    /\ (LoopExited /\ Len(requests) >= 1) => sleeps = Len(requests) - 1

C14_Witness ==
    /\ LoopExited
    /\ Len(requests) = 3
    /\ sleeps = 2
    /\ LastKind # "full"

\* C15: every request of a run carries the page size, the date filter and
\* the sort order of the run; any two requests of a run differ in the
\* offset and in nothing else.
C15_FixedParams ==
    /\ \A k \in 1..Len(requests) :
          /\ requests[k].limit = limit
          /\ requests[k].where = where
          /\ requests[k].order = "sale_date DESC"
    /\ \A j, k \in 1..Len(requests) :
          /\ [requests[j] EXCEPT !.offset = 0] =
             [requests[k] EXCEPT !.offset = 0]
          /\ j # k => requests[j].offset # requests[k].offset

C15_Witness ==
    /\ Len(requests) >= 2
    /\ where = "custom"
    /\ limit >= 2
    /\ requests[1].limit = requests[2].limit
    /\ requests[1].offset # requests[2].offset

\* C16: a run whose fetch raised has written nothing: the canonical file
\* changes only with a write that belongs to a return, so after a raise it
\* still holds what the previous run left.
C16_NoWriteOnRaise ==
    [][/\ fetchOutcome' = "raised" =>
             (writes' = <<>> /\ canonical' = canonical)
       /\ canonical' # canonical =>
             (fetchOutcome' = "returned" /\ Len(writes') = Len(writes) + 1)
       /\ (writes' # writes /\ writes' # <<>>) =>
             fetchOutcome' # "raised"]_vars

C16_Witness ==
    /\ run = 2
    /\ fetchOutcome = "raised"
    /\ pc = "done"
    /\ writes = <<>>
    /\ canonical # NoFile
    /\ Len(canonical[1].lines) > 0

\* C17: total_fetched is the length of the accumulator; whenever a request
\* is about to be issued or is in flight, offset equals the number of
\* records accumulated and P times the number of completed requests; so at
\* a failure offset > 0 exactly when a page has already succeeded.
C17_LoopInvariant ==
    /\ total_fetched = Len(all_data)
    /\ pc \in {"loop", "wait"} =>
          /\ offset = Len(all_data)
          /\ offset = total_fetched
          /\ offset = limit * Len(responses)
          /\ offset > 0 <=> \E k \in 1..Len(responses) :
                                responses[k].status = "ok"

C17_Witness ==
    /\ pc = "wait"
    /\ Len(requests) = 3
    /\ offset = 2 * limit
    /\ Len(all_data) = offset

\* C18: a run never issues more than floor(N / P) + 1 requests, whatever
\* fails, and once the loop is entered fetch_sales_data returns or raises.
C18_Terminates ==
    /\ [](Len(requests) <= (N \div limit) + 1)
    /\ (pc = "loop") ~> (fetchOutcome # "none")

C18_Witness ==
    /\ exitReason = "Failure"
    /\ fetchOutcome = "returned"
    /\ Len(requests) = (N \div limit) + 1
    /\ Len(requests) >= 2
====
